---- MODULE Spec2Model ----
(***************************************************************************)
(* Model of the automotive dashboard core: the filters and summary         *)
(* statistics of src/utils.py and the aggregations and derived metrics of  *)
(* src/processing/transform.py.  A table (pandas DataFrame) is a sequence  *)
(* of records; the field idx is the row's index label.  Real numbers are   *)
(* exact rationals [num, den]; den = 0 stands for NaN (num = 0) or an      *)
(* infinity (num # 0), the values pandas gives for x / 0.                  *)
(***************************************************************************)
EXTENDS Integers, Sequences, FiniteSets, TLC

VARIABLES df, df_columns, op, arg, out, out_columns, out_is_df, raised,
          pc, filtered_df, calls, shown

vars == <<df, df_columns, op, arg, out, out_columns, out_is_df, raised,
          pc, filtered_df, calls, shown>>

main_vars == <<pc, filtered_df, calls, shown>>

(***************************************************************************)
(* Bounds of the model.                                                    *)
(***************************************************************************)
MaxRows == 3
TicksPerSecond == 2

(***************************************************************************)
(* Time: a timestamp is a number of ticks since midnight of day 0.         *)
(***************************************************************************)
Second == TicksPerSecond
Hour == 3600 * Second
Day == 24 * Hour

(***************************************************************************)
(* Anomaly thresholds.                                                     *)
(***************************************************************************)
HighTempThreshold == 205
LowEfficiencyThreshold == 24
HighRpmThreshold == 3200

(***************************************************************************)
(* Rational arithmetic standing for pandas' float64 arithmetic.            *)
(***************************************************************************)
Rat(n, d) == [num |-> n, den |-> d]
FromInt(n) == Rat(n, 1)
NaN == Rat(0, 0)
IsNaN(q) == q.den = 0 /\ q.num = 0
IsFinite(q) == q.den # 0
RatDiv(a, b) == Rat(a.num * b.den, a.den * b.num)
RatMul(a, b) == Rat(a.num * b.num, a.den * b.den)
RatEq(a, b) == /\ IsFinite(a)
               /\ IsFinite(b)
               /\ a.num * b.den = b.num * a.den

Range(s) == {s[i] : i \in 1..Len(s)}

RECURSIVE SumSeq(_)
SumSeq(s) == IF s = <<>> THEN 0 ELSE Head(s) + SumSeq(Tail(s))

MaxSet(S) == CHOOSE y \in S : \A z \in S : y >= z

MinSet(S) == CHOOSE y \in S : \A z \in S : y <= z

Column(t, c) == [i \in 1..Len(t) |-> t[i][c]]

\* Series.mean(): NaN on an empty series
Mean(s) == IF Len(s) = 0 THEN NaN ELSE Rat(SumSeq(s), Len(s))

(***************************************************************************)
(* src/utils.py: the filters.  df[mask] builds a new frame holding the     *)
(* rows where mask is True, in order, with their index labels.             *)
(***************************************************************************)
\* A variant without the early return on an empty list.
filter_by_vehicle_no_early_return(t, vehicle_ids) ==
    SelectSeq(t, LAMBDA r : r.vehicle_id \in Range(vehicle_ids))

VehicleIsin(ids, r) == r.vehicle_id \in Range(ids)

filter_by_vehicle(t, vehicle_ids) ==
    IF vehicle_ids = <<>>
    THEN t
    ELSE SelectSeq(t, LAMBDA r : VehicleIsin(vehicle_ids, r))

\* A variant comparing with the first list element only.
LocationIsin_first_only(locs, r) == r.location = locs[1]

LocationIsin(locs, r) == r.location \in Range(locs)

filter_by_location(t, locations) ==
    IF locations = <<>>
    THEN t
    ELSE SelectSeq(t, LAMBDA r : LocationIsin(locations, r))

\* A variant with an exclusive end.
InDateRange_exclusive_end(start_date, end_date, r) ==
    r.timestamp >= start_date /\ r.timestamp < end_date

InDateRange(start_date, end_date, r) ==
    r.timestamp >= start_date /\ r.timestamp <= end_date

filter_by_date_range(t, start_date, end_date) ==
    SelectSeq(t, LAMBDA r : InDateRange(start_date, end_date, r))

(***************************************************************************)
(* DataFrame.groupby('vehicle_id'): the group keys in sorted order, each   *)
(* group holding its rows in their order in the frame.                     *)
(***************************************************************************)
VehicleOrder == <<"V1", "V2", "V3">>

GroupKeys(t) ==
    SelectSeq(VehicleOrder, LAMBDA v : v \in Range(Column(t, "vehicle_id")))

Group(t, v) == SelectSeq(t, LAMBDA r : r.vehicle_id = v)

(***************************************************************************)
(* src/utils.py: get_summary_stats.                                        *)
(***************************************************************************)
IsActive(r) == r.speed_mph > 0

ActiveRows(t) == SelectSeq(t, IsActive)

\* A variant averaging over idle rows too.
AvgActive_all_rows(t, c) ==
    IF Len(t) > 0 THEN Mean(Column(t, c)) ELSE FromInt(0)

AvgActive(t, c) ==
    IF Len(ActiveRows(t)) > 0 THEN Mean(Column(ActiveRows(t), c)) ELSE FromInt(0)

\* A variant adding up the distance of every row.
TotalDistance_sum_all_rows(t) == SumSeq(Column(t, "distance_miles"))

TotalDistance(t) ==
    LET keys == GroupKeys(t)
    IN  SumSeq([k \in 1..Len(keys) |->
                  MaxSet(Range(Column(Group(t, keys[k]), "distance_miles")))])

get_summary_stats(t) ==
    [total_records |-> Len(t),
     unique_vehicles |-> Cardinality(Range(Column(t, "vehicle_id"))),
     avg_speed |-> AvgActive(t, "speed_mph"),
     avg_fuel_consumption |-> AvgActive(t, "fuel_consumption_mpg"),
     avg_engine_temp |-> Mean(Column(t, "engine_temp_f")),
     total_distance |-> TotalDistance(t)]

(***************************************************************************)
(* src/processing/transform.py: aggregate_by_vehicle.                      *)
(***************************************************************************)
\* A variant taking the location of the row with the earliest timestamp.
VehicleAggRow_first_by_time(k, v, g) ==
    [idx |-> k - 1,
     vehicle_id |-> v,
     speed_mph_mean |-> Mean(Column(g, "speed_mph")),
     speed_mph_max |-> MaxSet(Range(Column(g, "speed_mph"))),
     speed_mph_min |-> MinSet(Range(Column(g, "speed_mph"))),
     fuel_consumption_mpg_mean |-> Mean(Column(g, "fuel_consumption_mpg")),
     engine_temp_f_mean |-> Mean(Column(g, "engine_temp_f")),
     rpm_mean |-> Mean(Column(g, "rpm")),
     distance_miles_max |-> MaxSet(Range(Column(g, "distance_miles"))),
     location_first |->
        g[CHOOSE i \in 1..Len(g) :
            \A j \in 1..Len(g) :
                \/ g[i].timestamp < g[j].timestamp
                \/ (g[i].timestamp = g[j].timestamp /\ i <= j)].location]

\* A variant taking the first speed of the group as its minimum.
VehicleAggRow_min_is_first(k, v, g) ==
    [idx |-> k - 1,
     vehicle_id |-> v,
     speed_mph_mean |-> Mean(Column(g, "speed_mph")),
     speed_mph_max |-> MaxSet(Range(Column(g, "speed_mph"))),
     speed_mph_min |-> g[1].speed_mph,
     fuel_consumption_mpg_mean |-> Mean(Column(g, "fuel_consumption_mpg")),
     engine_temp_f_mean |-> Mean(Column(g, "engine_temp_f")),
     rpm_mean |-> Mean(Column(g, "rpm")),
     distance_miles_max |-> MaxSet(Range(Column(g, "distance_miles"))),
     location_first |-> g[1].location]

VehicleAggRow(k, v, g) ==
    [idx |-> k - 1,
     vehicle_id |-> v,
     speed_mph_mean |-> Mean(Column(g, "speed_mph")),
     speed_mph_max |-> MaxSet(Range(Column(g, "speed_mph"))),
     speed_mph_min |-> MinSet(Range(Column(g, "speed_mph"))),
     fuel_consumption_mpg_mean |-> Mean(Column(g, "fuel_consumption_mpg")),
     engine_temp_f_mean |-> Mean(Column(g, "engine_temp_f")),
     rpm_mean |-> Mean(Column(g, "rpm")),
     distance_miles_max |-> MaxSet(Range(Column(g, "distance_miles"))),
     location_first |-> g[1].location]

\* A variant aggregating without grouping: one output row per input row.
aggregate_by_vehicle_per_row(t) ==
    [k \in 1..Len(t) |-> VehicleAggRow(k, t[k].vehicle_id, <<t[k]>>)]

aggregate_by_vehicle(t) ==
    LET keys == GroupKeys(t)
    IN  [k \in 1..Len(keys) |-> VehicleAggRow(k, keys[k], Group(t, keys[k]))]

(***************************************************************************)
(* src/processing/transform.py: aggregate_by_time.  Within each vehicle    *)
(* group, resample(freq) lays out every bucket from the bucket of the      *)
(* group's earliest timestamp to the bucket of its latest one, and the     *)
(* mean of a bucket holding no row is NaN.                                 *)
(***************************************************************************)
BucketSize(freq) == IF freq = "H" THEN Hour ELSE Day

Floor(ts, size) == ts - (ts % size)

Bins(g, size) ==
    LET lo == Floor(MinSet(Range(Column(g, "timestamp"))), size)
        hi == Floor(MaxSet(Range(Column(g, "timestamp"))), size)
    IN  [j \in 1..((hi - lo) \div size + 1) |-> lo + (j - 1) * size]

\* A variant assigning a boundary timestamp to the preceding bucket.
InBucket_end_inclusive(b, size, r) == b < r.timestamp /\ r.timestamp <= b + size

InBucket(b, size, r) == b <= r.timestamp /\ r.timestamp < b + size

BucketRow(v, g, b, size) ==
    LET members == SelectSeq(g, LAMBDA r : InBucket(b, size, r))
    IN  [vehicle_id |-> v,
         timestamp |-> b,
         speed_mph |-> Mean(Column(members, "speed_mph")),
         fuel_consumption_mpg |-> Mean(Column(members, "fuel_consumption_mpg")),
         engine_temp_f |-> Mean(Column(members, "engine_temp_f")),
         rpm |-> Mean(Column(members, "rpm"))]

Resample(v, g, size) ==
    LET bins == Bins(g, size)
    IN  [j \in 1..Len(bins) |-> BucketRow(v, g, bins[j], size)]

RECURSIVE ConcatGroups(_, _, _)
ConcatGroups(t, keys, size) ==
    IF keys = <<>>
    THEN <<>>
    ELSE Resample(Head(keys), Group(t, Head(keys)), size)
           \o ConcatGroups(t, Tail(keys), size)

ResetIndex(t) == [i \in 1..Len(t) |-> [idx |-> i - 1] @@ t[i]]

aggregate_by_time(t, freq) ==
    ResetIndex(ConcatGroups(t, GroupKeys(t), BucketSize(freq)))

(***************************************************************************)
(* src/processing/transform.py: the derived metrics.  Each works on a copy *)
(* of the frame and assigns its new columns on the copy.                   *)
(***************************************************************************)
\* A variant dividing by the raw speed.
EfficiencyScore_raw_speed(r) ==
    RatMul(RatDiv(FromInt(r.fuel_consumption_mpg), FromInt(r.speed_mph)),
           FromInt(100))

EfficiencyScore(r) ==
    RatMul(RatDiv(FromInt(r.fuel_consumption_mpg), FromInt(r.speed_mph + 1)),
           FromInt(100))

\* A variant scoring the moving rows only.
calculate_efficiency_score_moving_only(t) ==
    LET moving == SelectSeq(t, LAMBDA r : r.speed_mph > 0)
    IN  [i \in 1..Len(moving) |->
            [efficiency_score |-> EfficiencyScore(moving[i])] @@ moving[i]]

calculate_efficiency_score(t) ==
    [i \in 1..Len(t) |-> [efficiency_score |-> EfficiencyScore(t[i])] @@ t[i]]

\* A variant with an inclusive threshold.
HighTemp_inclusive(r) == r.engine_temp_f >= HighTempThreshold

HighTemp(r) == r.engine_temp_f > HighTempThreshold

LowEfficiency(r) == r.fuel_consumption_mpg < LowEfficiencyThreshold

HighRpm(r) == r.rpm > HighRpmThreshold

identify_anomalies(t) ==
    [i \in 1..Len(t) |->
        [high_temp |-> HighTemp(t[i]),
         low_efficiency |-> LowEfficiency(t[i]),
         high_rpm |-> HighRpm(t[i])] @@ t[i]]

(***************************************************************************)
(* Inputs: the rows a loaded frame may hold and the arguments of the       *)
(* calls.  A loaded frame carries the index labels 0, 1, 2, ...            *)
(***************************************************************************)
Row(v, l, ts, sp, rp, mpg, temp, dist) ==
    [vehicle_id |-> v, location |-> l, timestamp |-> ts, speed_mph |-> sp,
     rpm |-> rp, fuel_consumption_mpg |-> mpg, engine_temp_f |-> temp,
     distance_miles |-> dist]

Times == {0, 2 * Hour, 2 * Day}

SampleRows ==
    {Row("V1", "NYC", 0, 60, 2000, 30, 180, 10),
     Row("V1", "LA", 2 * Hour, 0, 3300, 23, 206, 20),
     Row("V2", "NYC", 2 * Day, 100, 3200, 24, 205, 15),
     Row("V2", "LA", 0, 0, 800, 40, 190, 0),
     Row("V1", "NYC", 2 * Day, 70, 2400, 25, 210, 35)}

FilterRows ==
    {Row(v, l, ts, 60, 2000, 30, 180, 10) :
        v \in {"V1", "V2"}, l \in {"NYC", "LA"}, ts \in {0, 2 * Day}}

AggRows ==
    {Row(v, "NYC", ts, sp, 2000, 30, 180, 10) :
        v \in {"V1", "V2"}, ts \in {0, 2 * Day}, sp \in {0, 60}}

ScoreRows ==
    {Row("V1", "NYC", 0, sp, 2000, mpg, temp, 10) :
        sp \in {0, 60}, mpg \in {30, 40}, temp \in {180, 206}}

AnomalyRows ==
    {Row("V1", "NYC", 0, 60, rp, mpg, temp, 10) :
        rp \in {HighRpmThreshold, HighRpmThreshold + 100},
        mpg \in {LowEfficiencyThreshold - 1, LowEfficiencyThreshold},
        temp \in {HighTempThreshold, HighTempThreshold + 1}}

Frames(rows) ==
    {ResetIndex(t) : t \in UNION {[1..n -> rows] : n \in 0..MaxRows}}

VehicleLists == {<<>>, <<"V1">>, <<"V2", "V1">>, <<"V3">>}

LocationLists == {<<>>, <<"NYC">>, <<"LA", "NYC">>, <<"SF">>}

Freqs == {"H", "D"}

(***************************************************************************)
(* Columns.  A frame is its column set and its rows; a row holds a value   *)
(* for each column of its frame, and idx, its index label.  Reading a      *)
(* column the frame lacks raises KeyError naming that column.              *)
(***************************************************************************)
AllColumns ==
    {"vehicle_id", "location", "timestamp", "speed_mph", "rpm",
     "fuel_consumption_mpg", "engine_temp_f", "distance_miles"}

NoError == [error |-> "", column |-> ""]

KeyError(c) == [error |-> "KeyError", column |-> c]

RECURSIVE FirstMissing(_, _)
FirstMissing(cols, needed) ==
    IF needed = <<>>
    THEN ""
    ELSE IF Head(needed) \notin cols
         THEN Head(needed)
         ELSE FirstMissing(cols, Tail(needed))

VehicleFilterReads(vehicle_ids) ==
    IF vehicle_ids = <<>> THEN <<>> ELSE <<"vehicle_id">>

LocationFilterReads(locations) ==
    IF locations = <<>> THEN <<>> ELSE <<"location">>

DateFilterReads == <<"timestamp">>

SummaryStatsReads(t, cols) ==
    IF "speed_mph" \notin cols
    THEN <<"speed_mph">>
    ELSE <<"vehicle_id">>
           \o (IF Len(ActiveRows(t)) > 0 THEN <<"fuel_consumption_mpg">> ELSE <<>>)
           \o <<"engine_temp_f", "distance_miles">>

VehicleAggReads ==
    <<"vehicle_id", "speed_mph", "fuel_consumption_mpg", "engine_temp_f",
      "rpm", "distance_miles", "location">>

TimeAggReads ==
    <<"timestamp", "vehicle_id", "speed_mph", "fuel_consumption_mpg",
      "engine_temp_f", "rpm">>

\* A variant reading speed_mph before fuel_consumption_mpg.
EfficiencyScoreReads_speed_first == <<"speed_mph", "fuel_consumption_mpg">>

EfficiencyScoreReads == <<"fuel_consumption_mpg", "speed_mph">>

AnomalyReads == <<"engine_temp_f", "fuel_consumption_mpg", "rpm">>

VehicleAggColumns ==
    {"vehicle_id", "speed_mph_mean", "speed_mph_max", "speed_mph_min",
     "fuel_consumption_mpg_mean", "engine_temp_f_mean", "rpm_mean",
     "distance_miles_max", "location_first"}

TimeAggColumns ==
    {"vehicle_id", "timestamp", "speed_mph", "fuel_consumption_mpg",
     "engine_temp_f", "rpm"}

AnomalyFlagColumns == <<"high_temp", "low_efficiency", "high_rpm">>

(***************************************************************************)
(* Frame objects.  A function works either on the argument object itself   *)
(* or on a new object; an assignment made in place on the argument object  *)
(* shows in the caller's frame.                                            *)
(***************************************************************************)
\* A variant binding the working frame to the argument instead of a copy.
DfCopy_alias(t, cols) == [rows |-> t, columns |-> cols, is_arg |-> TRUE]

DfCopy(t, cols) == [rows |-> t, columns |-> cols, is_arg |-> FALSE]

\* df_copy.set_index('timestamp', inplace=True)
SetIndexTimestamp(w) ==
    [w EXCEPT
       !.rows = [i \in 1..Len(w.rows) |->
                   [c \in (DOMAIN w.rows[i]) \ {"timestamp"} |->
                      IF c = "idx" THEN w.rows[i].timestamp ELSE w.rows[i][c]]],
       !.columns = @ \ {"timestamp"}]

\* df_copy['efficiency_score'] = ...
AssignEfficiencyScore(w) ==
    [w EXCEPT !.rows = calculate_efficiency_score(@),
              !.columns = @ \cup {"efficiency_score"}]

AnomalyFlag(n, r) ==
    IF n = 1 THEN HighTemp(r) ELSE IF n = 2 THEN LowEfficiency(r) ELSE HighRpm(r)

\* the n-th of the three flag assignments of identify_anomalies
AssignAnomalyFlag(w, n) ==
    [w EXCEPT
       !.rows = [i \in 1..Len(w.rows) |->
                   (AnomalyFlagColumns[n] :> AnomalyFlag(n, w.rows[i]))
                      @@ w.rows[i]],
       !.columns = @ \cup {AnomalyFlagColumns[n]}]

\* A variant returning an empty frame as it is.
IdentifyAnomaliesFrame_skip_empty(w) ==
    IF w.rows = <<>>
    THEN w
    ELSE [w EXCEPT !.rows = identify_anomalies(@),
                   !.columns = @ \cup Range(AnomalyFlagColumns)]

\* the working frame after the three flag assignments
IdentifyAnomaliesFrame(w) ==
    [w EXCEPT !.rows = identify_anomalies(@),
              !.columns = @ \cup Range(AnomalyFlagColumns)]

\* the working frame after the flag assignments made before the first
\* missing column
RECURSIVE AssignAnomalyFlags(_, _)
AssignAnomalyFlags(w, n) ==
    IF n > 3 \/ AnomalyReads[n] \notin w.columns
    THEN w
    ELSE AssignAnomalyFlags(AssignAnomalyFlag(w, n), n + 1)

(***************************************************************************)
(* src/app.py: apply_filters.  The dates are calendar days; pd.Timestamp   *)
(* of a date is its midnight.                                              *)
(***************************************************************************)
Timestamp(date) == date * Day

EndOfDay(end_date) == Timestamp(end_date) + Day - Second

apply_filters(t, selected_vehicles, selected_locations, start_date, end_date) ==
    filter_by_date_range(
        filter_by_location(filter_by_vehicle(t, selected_vehicles),
                           selected_locations),
        Timestamp(start_date), EndOfDay(end_date))

ApplyFiltersReads(selected_vehicles, selected_locations) ==
    VehicleFilterReads(selected_vehicles)
      \o LocationFilterReads(selected_locations) \o DateFilterReads

Selections == {<<<<>>, <<>>>>, <<<<"V1">>, <<"NYC">>>>}

DateRanges == {<<0, 0>>, <<0, 1>>, <<1, 1>>}

TimeRows ==
    {Row(v, "NYC", ts, sp, 2000, 30, 180, 10) :
        v \in {"V1", "V2"}, ts \in {Day - 1, Day}, sp \in {60, 70}}

(***************************************************************************)
(* Frames lacking some columns.                                            *)
(***************************************************************************)
SchemaRows ==
    {Row("V1", "NYC", 0, 60, 2000, 30, 180, 10),
     Row("V2", "LA", 2 * Hour, 0, 3300, 23, 206, 20)}

\* the column sets of the frames that lack up to two columns
ColumnSets ==
    {AllColumns \ drop : drop \in {d \in SUBSET AllColumns : Cardinality(d) <= 2}}

Project(t, cols) ==
    [i \in 1..Len(t) |-> [c \in cols \cup {"idx"} |-> t[i][c]]]

(***************************************************************************)
(* src/utils.py: load_data.  A file is missing, unreadable, or holds a     *)
(* header and rows whose timestamp cell is text: a date, a date and a time *)
(* of day, or something that is no date-time.  read_csv raises on a file   *)
(* it cannot open; df['timestamp'] raises KeyError without that column;    *)
(* to_datetime raises ValueError on a cell it cannot parse.                *)
(***************************************************************************)
Cell(kind, d, h, m, sec) ==
    [kind |-> kind, day |-> d, hour |-> h, minute |-> m, second |-> sec]

CsvCells ==
    {Cell("date", 1, 0, 0, 0), Cell("datetime", 0, 10, 30, 15),
     Cell("text", 0, 0, 0, 0)}

CsvRow(cell) == Row("V1", "NYC", cell, 60, 2000, 30, 180, 10)

CsvFile(status, cols, cells) ==
    [status |-> status, columns |-> cols,
     rows |-> Project(ResetIndex([i \in 1..Len(cells) |-> CsvRow(cells[i])]),
                      cols)]

Files ==
    {CsvFile("missing", {}, <<>>), CsvFile("denied", {}, <<>>),
     CsvFile("ok", AllColumns \ {"timestamp"}, <<Cell("date", 1, 0, 0, 0)>>),
     CsvFile("ok", AllColumns \ {"speed_mph"}, <<Cell("date", 1, 0, 0, 0)>>)}
    \cup {CsvFile("ok", AllColumns, cells) :
             cells \in {<<>>} \cup {<<a, b>> : a, b \in CsvCells}}

Parseable(cell) == cell.kind \in {"date", "datetime"}

ToDatetime(cell) ==
    IF cell.kind = "date"
    THEN cell.day * Day
    ELSE cell.day * Day + cell.hour * Hour + cell.minute * 60 * Second
           + cell.second * Second

Result(e, rows, cols) == [raised |-> e, rows |-> rows, columns |-> cols]

ReadCsvError(file) ==
    IF file.status = "missing"
    THEN [error |-> "FileNotFoundError", column |-> ""]
    ELSE IF file.status = "denied"
         THEN [error |-> "PermissionError", column |-> ""]
         ELSE NoError

\* A variant turning unparseable cells into missing values (-1).
load_data_coerce(file) ==
    IF ReadCsvError(file) # NoError
    THEN Result(ReadCsvError(file), <<>>, {})
    ELSE IF "timestamp" \notin file.columns
         THEN Result(KeyError("timestamp"), <<>>, {})
         ELSE Result(NoError,
                     [i \in 1..Len(file.rows) |->
                        [file.rows[i] EXCEPT
                           !.timestamp = IF Parseable(@) THEN ToDatetime(@) ELSE -1]],
                     file.columns)

load_data(file) ==
    IF ReadCsvError(file) # NoError
    THEN Result(ReadCsvError(file), <<>>, {})
    ELSE IF "timestamp" \notin file.columns
         THEN Result(KeyError("timestamp"), <<>>, {})
         ELSE IF \E i \in 1..Len(file.rows) : ~Parseable(file.rows[i].timestamp)
              THEN Result([error |-> "ValueError", column |-> ""], <<>>, {})
              ELSE Result(NoError,
                          [i \in 1..Len(file.rows) |->
                             [file.rows[i] EXCEPT !.timestamp = ToDatetime(@)]],
                          file.columns)

(***************************************************************************)
(* State: df and df_columns are the caller's frame, op / arg the last call *)
(* made on it, raised the error the call raised (NoError if it returned),  *)
(* out its return value, out_columns the columns of a returned frame, and  *)
(* out_is_df whether the returned object is the argument object itself     *)
(* rather than a new frame.  pc is the position of a run of main,          *)
(* filtered_df its filtered table, calls the calls it has made so far,     *)
(* each with the table it was made on, and shown the messages it has put   *)
(* on the page; a frame used outside main leaves them as they are.         *)
(***************************************************************************)
NoRun ==
    /\ pc = "none"
    /\ filtered_df = <<>>
    /\ calls = <<>>
    /\ shown = {}

InitWith(rows) ==
    /\ df \in Frames(rows)
    /\ df_columns = AllColumns
    /\ op = "none"
    /\ arg = <<>>
    /\ out = <<>>
    /\ out_columns = {}
    /\ out_is_df = FALSE
    /\ raised = NoError
    /\ NoRun

Init == InitWith(SampleRows)

InitFilter == InitWith(FilterRows)

InitAgg == InitWith(AggRows)

InitScore == InitWith(ScoreRows)

InitAnomaly == InitWith(AnomalyRows)

InitTime == InitWith(TimeRows)

InitSchema ==
    \E cols \in ColumnSets, t \in Frames(SchemaRows) :
        /\ df = Project(t, cols)
        /\ df_columns = cols
        /\ op = "none"
        /\ arg = <<>>
        /\ out = <<>>
        /\ out_columns = {}
        /\ out_is_df = FALSE
        /\ raised = NoError
        /\ NoRun

\* the call raises e and returns nothing
Raise(e) ==
    /\ raised' = e
    /\ out' = <<>>
    /\ out_columns' = {}
    /\ out_is_df' = FALSE

\* the call returns the value o
Return(o, cols, is_df) ==
    /\ raised' = NoError
    /\ out' = o
    /\ out_columns' = cols
    /\ out_is_df' = is_df

LoadData ==
    \E file \in Files :
        /\ op' = "load_data"
        /\ arg' = <<file>>
        /\ LET loaded == load_data(file)
           IN  IF loaded.raised # NoError
               THEN Raise(loaded.raised)
               ELSE Return(loaded.rows, loaded.columns, FALSE)
        /\ UNCHANGED <<df, df_columns>>
        /\ UNCHANGED main_vars

ApplyFilters ==
    \E sel \in Selections, dates \in DateRanges :
        /\ op' = "apply_filters"
        /\ arg' = <<sel[1], sel[2], dates[1], dates[2]>>
        /\ LET df_copy == DfCopy(df, df_columns)
               missing == FirstMissing(df_copy.columns,
                                       ApplyFiltersReads(sel[1], sel[2]))
           IN  IF missing # ""
               THEN Raise(KeyError(missing))
               ELSE Return(apply_filters(df_copy.rows, sel[1], sel[2],
                                         dates[1], dates[2]),
                           df_copy.columns, FALSE)
        /\ UNCHANGED <<df, df_columns>>
        /\ UNCHANGED main_vars

FilterByVehicle ==
    \E vehicle_ids \in VehicleLists :
        /\ op' = "filter_by_vehicle"
        /\ arg' = <<vehicle_ids>>
        /\ LET missing == FirstMissing(df_columns, VehicleFilterReads(vehicle_ids))
           IN  IF missing # ""
               THEN Raise(KeyError(missing))
               ELSE Return(filter_by_vehicle(df, vehicle_ids), df_columns, (vehicle_ids = <<>>))
        /\ UNCHANGED <<df, df_columns>>
        /\ UNCHANGED main_vars

FilterByLocation ==
    \E locations \in LocationLists :
        /\ op' = "filter_by_location"
        /\ arg' = <<locations>>
        /\ LET missing == FirstMissing(df_columns, LocationFilterReads(locations))
           IN  IF missing # ""
               THEN Raise(KeyError(missing))
               ELSE Return(filter_by_location(df, locations), df_columns, (locations = <<>>))
        /\ UNCHANGED <<df, df_columns>>
        /\ UNCHANGED main_vars

FilterByDateRange ==
    \E start_date \in Times, end_date \in Times :
        /\ op' = "filter_by_date_range"
        /\ arg' = <<start_date, end_date>>
        /\ LET missing == FirstMissing(df_columns, DateFilterReads)
           IN  IF missing # ""
               THEN Raise(KeyError(missing))
               ELSE Return(filter_by_date_range(df, start_date, end_date), df_columns, FALSE)
        /\ UNCHANGED <<df, df_columns>>
        /\ UNCHANGED main_vars

GetSummaryStats ==
    /\ op' = "get_summary_stats"
    /\ arg' = <<>>
    /\ LET missing == FirstMissing(df_columns, SummaryStatsReads(df, df_columns))
       IN  IF missing # ""
           THEN Raise(KeyError(missing))
           ELSE Return(get_summary_stats(df), {}, FALSE)
    /\ UNCHANGED <<df, df_columns>>
    /\ UNCHANGED main_vars

AggregateByVehicle ==
    /\ op' = "aggregate_by_vehicle"
    /\ arg' = <<>>
    /\ LET missing == FirstMissing(df_columns, VehicleAggReads)
       IN  IF missing # ""
           THEN Raise(KeyError(missing))
           ELSE Return(aggregate_by_vehicle(df), VehicleAggColumns, FALSE)
    /\ UNCHANGED <<df, df_columns>>
    /\ UNCHANGED main_vars

AggregateByTime ==
    \E freq \in Freqs :
        /\ op' = "aggregate_by_time"
        /\ arg' = <<freq>>
        /\ LET df_copy == DfCopy(df, df_columns)
               missing == FirstMissing(df_columns, TimeAggReads)
               indexed == IF "timestamp" \in df_columns
                          THEN SetIndexTimestamp(df_copy)
                          ELSE df_copy
           IN  /\ IF missing # ""
                  THEN Raise(KeyError(missing))
                  ELSE Return(aggregate_by_time(df, freq), TimeAggColumns, FALSE)
               /\ df' = IF indexed.is_arg THEN indexed.rows ELSE df
               /\ df_columns' = IF indexed.is_arg THEN indexed.columns ELSE df_columns
        /\ UNCHANGED main_vars

CalculateEfficiencyScore ==
    /\ op' = "calculate_efficiency_score"
    /\ arg' = <<>>
    /\ LET df_copy == DfCopy(df, df_columns)
           missing == FirstMissing(df_columns, EfficiencyScoreReads)
           scored == IF missing # "" THEN df_copy ELSE AssignEfficiencyScore(df_copy)
       IN  /\ IF missing # ""
              THEN Raise(KeyError(missing))
              ELSE Return(scored.rows, scored.columns, scored.is_arg)
           /\ df' = IF scored.is_arg THEN scored.rows ELSE df
           /\ df_columns' = IF scored.is_arg THEN scored.columns ELSE df_columns
    /\ UNCHANGED main_vars

IdentifyAnomalies ==
    /\ op' = "identify_anomalies"
    /\ arg' = <<>>
    /\ LET df_copy == DfCopy(df, df_columns)
           missing == FirstMissing(df_columns, AnomalyReads)
           flagged == IF missing # ""
                      THEN AssignAnomalyFlags(df_copy, 1)
                      ELSE IdentifyAnomaliesFrame(df_copy)
       IN  /\ IF missing # ""
              THEN Raise(KeyError(missing))
              ELSE Return(flagged.rows, flagged.columns, flagged.is_arg)
           /\ df' = IF flagged.is_arg THEN flagged.rows ELSE df
           /\ df_columns' = IF flagged.is_arg THEN flagged.columns ELSE df_columns
    /\ UNCHANGED main_vars

Next ==
    \/ LoadData
    \/ ApplyFilters
    \/ FilterByVehicle
    \/ FilterByLocation
    \/ FilterByDateRange
    \/ GetSummaryStats
    \/ AggregateByVehicle
    \/ AggregateByTime
    \/ CalculateEfficiencyScore
    \/ IdentifyAnomalies

Spec == Init /\ [][Next]_vars

SpecFilter == InitFilter /\ [][Next]_vars

SpecAgg == InitAgg /\ [][Next]_vars

SpecScore == InitScore /\ [][Next]_vars

SpecAnomaly == InitAnomaly /\ [][Next]_vars

SpecSchema == InitSchema /\ [][Next]_vars

SpecTime == InitTime /\ [][Next]_vars

(***************************************************************************)
(* src/app.py: main, one run of the dashboard script.  pc is the statement *)
(* the run is at; "stopped" is the run ended by st.stop(), "failed" the    *)
(* run ended by an exception main does not catch.                          *)
(***************************************************************************)
DataCells == {Cell("date", 1, 0, 0, 0), Cell("datetime", 0, 10, 30, 15)}

DataRows ==
    {Row(v, l, cell, 60, 2000, 30, 180, 10) :
        v \in {"V1", "V2"}, l \in {"NYC", "LA"}, cell \in DataCells}

MaxFileRows == 2

DataFiles ==
    Files \cup
    {[status |-> "ok", columns |-> AllColumns, rows |-> ResetIndex(t)] :
        t \in UNION {[1..n -> DataRows] : n \in 1..MaxFileRows}}

TimeAggOptions == {"None", "Hourly", "Daily"}

LocationOrder == <<"LA", "NYC", "SF">>

\* sorted(df['vehicle_id'].unique()), sorted(df['location'].unique())
AllVehicles(t) == GroupKeys(t)

AllLocations(t) ==
    SelectSeq(LocationOrder, LAMBDA l : l \in Range(Column(t, "location")))

\* what a multiselect can return: some of its options
Selected(options) ==
    {SelectSeq(options, LAMBDA x : x \in S) : S \in SUBSET Range(options)}

\* Timestamp.date()
Date(ts) == ts \div Day

SidebarReads == <<"vehicle_id", "location", "timestamp">>

\* what the date input can return: a range within [min_date, max_date]
SelectableDates(t) ==
    {d \in DateRanges :
        /\ MinSet({Date(x) : x \in Range(Column(t, "timestamp"))}) <= d[1]
        /\ d[2] <= MaxSet({Date(x) : x \in Range(Column(t, "timestamp"))})}

\* A variant taking a table of no rows for one that has rows.
HasRows_always(t) == Len(t) >= 0

\* len(filtered_df) > 0
HasRows(t) == Len(t) > 0

Call(fn, t) == [fn |-> fn, table |-> t]

InitMain ==
    /\ df = <<>>
    /\ df_columns = {}
    /\ op = "none"
    /\ arg = <<>>
    /\ out = <<>>
    /\ out_columns = {}
    /\ out_is_df = FALSE
    /\ raised = NoError
    /\ pc = "get_data"
    /\ filtered_df = <<>>
    /\ calls = <<>>
    /\ shown = {}

\* df = get_data(), st.error and st.stop() if it raises
GetData ==
    /\ pc = "get_data"
    /\ \E file \in DataFiles :
        /\ op' = "load_data"
        /\ arg' = <<file>>
        /\ calls' = Append(calls, Call("load_data", <<>>))
        /\ LET loaded == load_data(file)
           IN  IF loaded.raised # NoError
               THEN /\ Raise(loaded.raised)
                    /\ shown' = shown \cup {"error"}
                    /\ pc' = "stopped"
                    /\ UNCHANGED <<df, df_columns>>
               ELSE /\ Return(loaded.rows, loaded.columns, FALSE)
                    /\ df' = loaded.rows
                    /\ df_columns' = loaded.columns
                    /\ pc' = "render_sidebar_filters"
                    /\ UNCHANGED shown
    /\ UNCHANGED filtered_df

\* The widgets return some of the vehicles and locations of df and a date
\* range within its dates.  On a table of no rows the dates are NaT, and
\* the date input either fails on them or returns some range.
RenderSidebarFilters ==
    /\ pc = "render_sidebar_filters"
    /\ op' = "render_sidebar_filters"
    /\ arg' = <<>>
    /\ LET missing == FirstMissing(df_columns, SidebarReads)
       IN  IF missing # ""
           THEN /\ Raise(KeyError(missing))
                /\ pc' = "failed"
           ELSE \E selected_vehicles \in Selected(AllVehicles(df)),
                   selected_locations \in Selected(AllLocations(df)) :
                    \/ /\ df = <<>>
                       /\ Raise([error |-> "Exception", column |-> ""])
                       /\ pc' = "failed"
                    \/ \E dates \in (IF df = <<>> THEN DateRanges
                                                ELSE SelectableDates(df)) :
                        /\ Return(<<selected_vehicles, selected_locations,
                                    dates[1], dates[2]>>, {}, FALSE)
                        /\ pc' = "apply_filters"
    /\ UNCHANGED <<df, df_columns, filtered_df, calls, shown>>

\* filtered_df = apply_filters(df, selected_vehicles, selected_locations,
\*                             start_date, end_date)
MainApplyFilters ==
    /\ pc = "apply_filters"
    /\ op' = "apply_filters"
    /\ arg' = out
    /\ LET df_copy == DfCopy(df, df_columns)
           by_vehicle == filter_by_vehicle(df_copy.rows, out[1])
           by_location == filter_by_location(by_vehicle, out[2])
           result == apply_filters(df_copy.rows, out[1], out[2], out[3], out[4])
       IN  /\ calls' = calls \o <<Call("filter_by_vehicle", df_copy.rows),
                                  Call("filter_by_location", by_vehicle),
                                  Call("filter_by_date_range", by_location)>>
           /\ Return(result, df_copy.columns, FALSE)
           /\ filtered_df' = result
    /\ pc' = "if"
    /\ UNCHANGED <<df, df_columns, shown>>

\* if len(filtered_df) > 0: ... else: st.warning(...)
IfHasRows ==
    /\ pc = "if"
    /\ IF HasRows(filtered_df)
       THEN /\ pc' = "render_summary_statistics"
            /\ UNCHANGED shown
       ELSE /\ pc' = "render_footer"
            /\ shown' = shown \cup {"warning"}
    /\ UNCHANGED <<df, df_columns, op, arg, out, out_columns, out_is_df, raised,
                   filtered_df, calls>>

\* A call of a consumer on filtered_df: it raises KeyError on a column the
\* table lacks, which ends the run, or returns and the run goes on.
Consume(fn, args, missing, result, cols, next) ==
    /\ op' = fn
    /\ arg' = args
    /\ calls' = Append(calls, Call(fn, filtered_df))
    /\ IF missing # ""
       THEN /\ Raise(KeyError(missing))
            /\ pc' = "failed"
       ELSE /\ Return(result, cols, FALSE)
            /\ pc' = next
    /\ UNCHANGED <<df, df_columns, filtered_df, shown>>

RenderSummaryStatistics ==
    /\ pc = "render_summary_statistics"
    /\ Consume("get_summary_stats", <<>>,
               FirstMissing(df_columns, SummaryStatsReads(filtered_df, df_columns)),
               get_summary_stats(filtered_df), {},
               "render_fuel_efficiency_tab")

RenderFuelEfficiencyTab ==
    /\ pc = "render_fuel_efficiency_tab"
    /\ Consume("calculate_efficiency_score", <<>>,
               FirstMissing(df_columns, EfficiencyScoreReads),
               calculate_efficiency_score(filtered_df),
               df_columns \cup {"efficiency_score"},
               "render_engine_metrics_tab")

RenderEngineMetricsTab ==
    /\ pc = "render_engine_metrics_tab"
    /\ Consume("identify_anomalies", <<>>,
               FirstMissing(df_columns, AnomalyReads),
               identify_anomalies(filtered_df),
               df_columns \cup Range(AnomalyFlagColumns),
               "render_vehicle_comparison_tab")

RenderVehicleComparisonTab ==
    /\ pc = "render_vehicle_comparison_tab"
    /\ Consume("aggregate_by_vehicle", <<>>,
               FirstMissing(df_columns, VehicleAggReads),
               aggregate_by_vehicle(filtered_df), VehicleAggColumns,
               "render_raw_data_section")

RenderRawDataSection ==
    /\ pc = "render_raw_data_section"
    /\ \E time_agg \in TimeAggOptions :
        IF time_agg = "None"
        THEN /\ pc' = "render_footer"
             /\ UNCHANGED <<df, df_columns, op, arg, out, out_columns,
                            out_is_df, raised, filtered_df, calls, shown>>
        ELSE LET freq == IF time_agg = "Hourly" THEN "H" ELSE "D"
             IN  Consume("aggregate_by_time", <<freq>>,
                         FirstMissing(df_columns, TimeAggReads),
                         aggregate_by_time(filtered_df, freq), TimeAggColumns,
                         "render_footer")

RenderFooter ==
    /\ pc = "render_footer"
    /\ pc' = "done"
    /\ UNCHANGED <<df, df_columns, op, arg, out, out_columns, out_is_df, raised,
                   filtered_df, calls, shown>>

MainNext ==
    \/ GetData
    \/ RenderSidebarFilters
    \/ MainApplyFilters
    \/ IfHasRows
    \/ RenderSummaryStatistics
    \/ RenderFuelEfficiencyTab
    \/ RenderEngineMetricsTab
    \/ RenderVehicleComparisonTab
    \/ RenderRawDataSection
    \/ RenderFooter

SpecMain == InitMain /\ [][MainNext]_vars

(***************************************************************************)
(* Properties.  Positions(t, P) is the set of positions of t whose row     *)
(* satisfies P; IsSelection(t, o, K) says that o holds exactly the rows of *)
(* t at the positions K, each once, unchanged and in the order of t.       *)
(***************************************************************************)
Positions(t, P(_)) == {i \in 1..Len(t) : P(t[i])}

IsSelection(t, o, K) ==
    /\ Len(o) = Cardinality(K)
    /\ \A j \in 1..Len(o) : (o[j].idx + 1) \in K /\ o[j] = t[o[j].idx + 1]
    /\ \A j, k \in 1..Len(o) : j < k => o[j].idx < o[k].idx

RECURSIVE SumAt(_, _, _)
SumAt(t, c, K) ==
    IF K = {}
    THEN 0
    ELSE LET i == CHOOSE x \in K : TRUE IN t[i][c] + SumAt(t, c, K \ {i})

\* C1: filter_by_vehicle(T, []) and filter_by_location(T, []) return a table
\* equal to T: the same rows, with the same values, in the same order.
C1_EmptySelectorIsIdentity ==
    (op \in {"filter_by_vehicle", "filter_by_location"} /\ arg[1] = <<>>)
        => out = df

C1_Witness ==
    /\ op = "filter_by_vehicle"
    /\ arg[1] = <<>>
    /\ Len(df) >= 2
    /\ out = df

\* C2: with a non-empty selector list S, filter_by_vehicle (filter_by_location)
\* returns exactly the rows of T whose vehicle_id (location) is in S, each
\* once, in their order in T and unchanged; no match gives an empty table.
C2_NonEmptySelectorKeepsMembers ==
    /\ (op = "filter_by_vehicle" /\ arg[1] # <<>>) =>
          IsSelection(df, out,
                      Positions(df, LAMBDA r : \E k \in 1..Len(arg[1]) :
                                                  r.vehicle_id = arg[1][k]))
    /\ (op = "filter_by_location" /\ arg[1] # <<>>) =>
          IsSelection(df, out,
                      Positions(df, LAMBDA r : \E k \in 1..Len(arg[1]) :
                                                  r.location = arg[1][k]))
    /\ (/\ op \in {"filter_by_vehicle", "filter_by_location"}
        /\ arg[1] \in {<<"V3">>, <<"SF">>}) => out = <<>>

C2_Witness ==
    /\ op = "filter_by_location"
    /\ arg[1] = <<"LA", "NYC">>
    /\ Len(out) >= 2
    /\ out[1].location = "NYC"
    /\ out[2].location = "LA"

\* C3: filter_by_date_range(T, start, end) returns exactly the rows of T with
\* start <= timestamp <= end, both ends included; it is empty if start > end.
C3_DateRangeInclusive ==
    op = "filter_by_date_range" =>
        /\ IsSelection(df, out,
                       Positions(df, LAMBDA r : /\ arg[1] <= r.timestamp
                                                /\ r.timestamp <= arg[2]))
        /\ \A i \in 1..Len(df) :
              df[i].timestamp \in {arg[1], arg[2]} /\ arg[1] <= arg[2]
                  => \E j \in 1..Len(out) : out[j] = df[i]
        /\ arg[1] > arg[2] => out = <<>>

C3_Witness ==
    /\ op = "filter_by_date_range"
    /\ arg = <<2 * Hour, 2 * Day>>
    /\ Len(df) >= 2
    /\ df[1].timestamp = 0
    /\ df[2].timestamp = 2 * Day
    /\ Len(out) = Len(df) - 1

\* C4: aggregate_by_vehicle(T) has as many rows as T has distinct vehicle_id
\* values (none when T is empty), and each distinct vehicle_id of T is in
\* exactly one output row.
C4_OneRowPerVehicle ==
    op = "aggregate_by_vehicle" =>
        /\ Len(out) = Cardinality({df[i].vehicle_id : i \in 1..Len(df)})
        /\ \A i \in 1..Len(df) :
              Cardinality({k \in 1..Len(out) :
                             out[k].vehicle_id = df[i].vehicle_id}) = 1
        /\ df = <<>> => out = <<>>

C4_Witness ==
    /\ op = "aggregate_by_vehicle"
    /\ Len(df) >= 3
    /\ Len(out) = 2

\* C5: aggregate_by_time(T, bucket) has exactly one row for each
\* (vehicle_id, bucket) pair holding a record of T and no row for a pair
\* holding none: empty buckets between two records do not appear.
C5_OnlyNonEmptyBuckets ==
    op = "aggregate_by_time" =>
        LET size == IF arg[1] = "H" THEN Hour ELSE Day
            pairs == {<<df[i].vehicle_id,
                        df[i].timestamp - (df[i].timestamp % size)>> :
                        i \in 1..Len(df)}
        IN  /\ \A k \in 1..Len(out) :
                  <<out[k].vehicle_id, out[k].timestamp>> \in pairs
            /\ \A p \in pairs :
                  Cardinality({k \in 1..Len(out) :
                      <<out[k].vehicle_id, out[k].timestamp>> = p}) = 1

C7_ScoreAsTestsAssert ==
    op = "calculate_efficiency_score" =>
        \A i \in 1..Len(df) :
            /\ IsFinite(out[i].efficiency_score)
            /\ df[i].speed_mph = 0 => out[i].efficiency_score.num = 0
            /\ df[i].speed_mph > 0 =>
                  out[i].efficiency_score.num * df[i].speed_mph
                    = df[i].fuel_consumption_mpg * 100
                        * out[i].efficiency_score.den

\* C8: identify_anomalies(T) sets on each row high_temp = engine_temp_f > 205,
\* low_efficiency = fuel_consumption_mpg < 24 and high_rpm = rpm > 3200, each
\* from its own column, with strict comparisons: 205, 24, 3200 flag nothing.
C8_AnomalyFlagsStrict ==
    op = "identify_anomalies" =>
        /\ Len(out) = Len(df)
        /\ \A i \in 1..Len(df) :
              /\ out[i].high_temp = (df[i].engine_temp_f > 205)
              /\ out[i].low_efficiency = (df[i].fuel_consumption_mpg < 24)
              /\ out[i].high_rpm = (df[i].rpm > 3200)
              /\ (/\ df[i].engine_temp_f = 205
                  /\ df[i].fuel_consumption_mpg = 24
                  /\ df[i].rpm = 3200) =>
                    (/\ ~out[i].high_temp
                     /\ ~out[i].low_efficiency
                     /\ ~out[i].high_rpm)

C8_Witness ==
    /\ op = "identify_anomalies"
    /\ Len(out) >= 2
    /\ df[1].engine_temp_f = 205
    /\ df[1].fuel_consumption_mpg = 24
    /\ df[1].rpm = 3200
    /\ ~out[1].high_temp /\ ~out[1].low_efficiency /\ ~out[1].high_rpm
    /\ out[2].high_temp /\ out[2].low_efficiency /\ ~out[2].high_rpm

\* C9: calculate_efficiency_score and identify_anomalies keep the rows of T
\* in order, keep every column of T with its values, and add only
\* efficiency_score (respectively high_temp, low_efficiency, high_rpm).
NewColumns(o) ==
    IF o = "calculate_efficiency_score"
    THEN {"efficiency_score"}
    ELSE {"high_temp", "low_efficiency", "high_rpm"}

C9_RowPreservingColumnAdding ==
    op \in {"calculate_efficiency_score", "identify_anomalies"} =>
        /\ Len(out) = Len(df)
        /\ \A i \in 1..Len(df) :
              /\ DOMAIN out[i] = DOMAIN df[i] \cup NewColumns(op)
              /\ \A c \in DOMAIN df[i] : out[i][c] = df[i][c]

C9_Witness ==
    /\ op = "identify_anomalies"
    /\ Len(df) >= 2
    /\ df[1] # df[2]
    /\ out[1].high_temp # out[2].high_temp
    /\ out[1].vehicle_id = df[1].vehicle_id
    /\ out[2].idx = 1

\* C10: get_summary_stats(T) takes avg_speed and avg_fuel_consumption as the
\* means over the rows with speed_mph > 0 only, both exactly 0 when there is
\* no such row; avg_engine_temp is the mean over all rows, idle ones too.
C10_AveragesExcludeIdle ==
    op = "get_summary_stats" =>
        LET active == {i \in 1..Len(df) : df[i].speed_mph > 0}
            n == Cardinality(active)
        IN  /\ n > 0 =>
                  /\ RatEq(out.avg_speed, Rat(SumAt(df, "speed_mph", active), n))
                  /\ RatEq(out.avg_fuel_consumption,
                           Rat(SumAt(df, "fuel_consumption_mpg", active), n))
            /\ n = 0 =>
                  /\ out.avg_speed = FromInt(0)
                  /\ out.avg_fuel_consumption = FromInt(0)
            /\ Len(df) > 0 =>
                  RatEq(out.avg_engine_temp,
                        Rat(SumAt(df, "engine_temp_f", 1..Len(df)), Len(df)))

C10_Witness ==
    /\ op = "get_summary_stats"
    /\ Len(df) >= 3
    /\ df[1].speed_mph = 0
    /\ df[1].fuel_consumption_mpg = 40
    /\ df[1].engine_temp_f = 206
    /\ df[2].speed_mph = 60
    /\ df[2].fuel_consumption_mpg = 30
    /\ df[2].engine_temp_f = 180
    /\ df[3].speed_mph = 60
    /\ df[3].fuel_consumption_mpg = 30
    /\ Len(df) = 3 => out.avg_fuel_consumption = Rat(60, 2)

\* C11: get_summary_stats(T) returns total_records = the number of rows,
\* unique_vehicles = the number of distinct vehicle_id values and
\* total_distance = the sum over the distinct vehicles of the vehicle's
\* largest distance_miles; repeating a row leaves total_distance unchanged.
RowsOf(t, v) == {i \in 1..Len(t) : t[i].vehicle_id = v}

IsMaxAt(t, c, K, x) ==
    /\ \E i \in K : t[i][c] = x
    /\ \A i \in K : t[i][c] <= x

IsMinAt(t, c, K, x) ==
    /\ \E i \in K : t[i][c] = x
    /\ \A i \in K : t[i][c] >= x

RECURSIVE SumOfMaxDistance(_, _)
SumOfMaxDistance(t, V) ==
    IF V = {}
    THEN 0
    ELSE LET v == CHOOSE x \in V : TRUE
             m == CHOOSE x \in 0..1000 : IsMaxAt(t, "distance_miles", RowsOf(t, v), x)
         IN  m + SumOfMaxDistance(t, V \ {v})

C11_TotalDistanceSumsVehicleMaxima ==
    op = "get_summary_stats" =>
        /\ out.total_records = Len(df)
        /\ out.unique_vehicles
              = Cardinality({df[i].vehicle_id : i \in 1..Len(df)})
        /\ out.total_distance
              = SumOfMaxDistance(df, {df[i].vehicle_id : i \in 1..Len(df)})
        /\ \A i \in 1..Len(df) :
              get_summary_stats(Append(df, df[i])).total_distance
                = out.total_distance

C11_Witness ==
    /\ op = "get_summary_stats"
    /\ Len(df) >= 3
    /\ out.unique_vehicles = 2
    /\ df[1].vehicle_id = df[2].vehicle_id
    /\ df[1].distance_miles > df[2].distance_miles
    /\ df[2].distance_miles > 0
    /\ Len(df) = 3 => out.total_distance = df[1].distance_miles + df[3].distance_miles

\* C12: each row of aggregate_by_vehicle(T), for a vehicle v, has
\* speed_mph_max / speed_mph_min = the largest / smallest speed_mph of v's
\* rows, distance_miles_max = the largest distance_miles of v's rows, and
\* each mean = the sum of the field over v's rows divided by their number;
\* so speed_mph_min <= speed_mph_mean <= speed_mph_max.
C12_VehicleAggregates ==
    op = "aggregate_by_vehicle" =>
        \A k \in 1..Len(out) :
            LET K == RowsOf(df, out[k].vehicle_id)
                n == Cardinality(K)
            IN  /\ n > 0
                /\ IsMaxAt(df, "speed_mph", K, out[k].speed_mph_max)
                /\ IsMinAt(df, "speed_mph", K, out[k].speed_mph_min)
                /\ IsMaxAt(df, "distance_miles", K, out[k].distance_miles_max)
                /\ RatEq(out[k].speed_mph_mean, Rat(SumAt(df, "speed_mph", K), n))
                /\ RatEq(out[k].fuel_consumption_mpg_mean,
                         Rat(SumAt(df, "fuel_consumption_mpg", K), n))
                /\ RatEq(out[k].engine_temp_f_mean,
                         Rat(SumAt(df, "engine_temp_f", K), n))
                /\ RatEq(out[k].rpm_mean, Rat(SumAt(df, "rpm", K), n))
                /\ out[k].speed_mph_mean.den > 0
                /\ out[k].speed_mph_min * out[k].speed_mph_mean.den
                      <= out[k].speed_mph_mean.num
                /\ out[k].speed_mph_mean.num
                      <= out[k].speed_mph_max * out[k].speed_mph_mean.den

C12_Witness ==
    /\ op = "aggregate_by_vehicle"
    /\ Len(df) >= 3
    /\ Len(out) = 2
    /\ out[1].speed_mph_min < out[1].speed_mph_max
    /\ df[1].vehicle_id = "V1"
    /\ df[1].speed_mph > df[2].speed_mph
    /\ df[2].vehicle_id = "V1"
    /\ df[3].vehicle_id = "V2"

\* C13: no core operation changes its argument: after any sequence of calls
\* the table has the same rows, the same columns (no efficiency_score or
\* anomaly column, timestamp still a column) and the same row index.
C13_ArgumentNeverMutated ==
    [][df' = df /\ df_columns' = df_columns]_vars

C13_Witness ==
    /\ op = "aggregate_by_time"
    /\ raised = NoError
    /\ Len(out) >= 3
    /\ Len(df) >= 2
    /\ df_columns = AllColumns
    /\ \A i \in 1..Len(df) :
          /\ DOMAIN df[i] = AllColumns \cup {"idx"}
          /\ df[i].idx = i - 1

\* C14: every core operation returning a table returns a new table, never
\* the argument object itself, whatever the selector list (the empty list
\* included).
C14_ReturnsNewTable ==
    (/\ op \in {"filter_by_vehicle", "filter_by_location",
                 "filter_by_date_range", "calculate_efficiency_score",
                 "identify_anomalies"}
     /\ raised = NoError) => ~out_is_df

\* C15: calculate_efficiency_score on a table lacking speed_mph or
\* fuel_consumption_mpg, and identify_anomalies on a table lacking
\* engine_temp_f, fuel_consumption_mpg or rpm, fail with an error naming the
\* missing column, return no table and leave the input unchanged; with all
\* required columns present neither fails.  ErrorOnMissingColumn(kind, first)
\* states it for the error kind `kind`; with first = TRUE the column named is
\* the first missing one in the order the function reads its columns.
RequiredColumns(o) ==
    IF o = "calculate_efficiency_score"
    THEN {"speed_mph", "fuel_consumption_mpg"}
    ELSE {"engine_temp_f", "fuel_consumption_mpg", "rpm"}

FirstRead(o, cols) ==
    IF o = "calculate_efficiency_score"
    THEN IF "fuel_consumption_mpg" \notin cols
         THEN "fuel_consumption_mpg"
         ELSE "speed_mph"
    ELSE IF "engine_temp_f" \notin cols
         THEN "engine_temp_f"
         ELSE IF "fuel_consumption_mpg" \notin cols
              THEN "fuel_consumption_mpg"
              ELSE "rpm"

ErrorOnMissingColumn(kind, first) ==
    op' \in {"calculate_efficiency_score", "identify_anomalies"} =>
        /\ RequiredColumns(op') \ df_columns # {} =>
              /\ raised'.error = kind
              /\ raised'.column \in RequiredColumns(op') \ df_columns
              /\ first => raised'.column = FirstRead(op', df_columns)
              /\ out' = <<>>
              /\ out_columns' = {}
              /\ df' = df
              /\ df_columns' = df_columns
        /\ RequiredColumns(op') \ df_columns = {} => raised' = NoError

LoadOutcome(missing, denied, nocolumn, unparseable) ==
    op = "load_data" =>
        LET file == arg[1]
            bad == /\ file.status = "ok"
                   /\ "timestamp" \in file.columns
                   /\ \E i \in 1..Len(file.rows) :
                         file.rows[i].timestamp.kind = "text"
            fails == \/ file.status # "ok"
                     \/ "timestamp" \notin file.columns
                     \/ bad
        IN  /\ file.status = "missing" => raised.error = missing
            /\ file.status = "denied" => raised.error = denied
            /\ (file.status = "ok" /\ "timestamp" \notin file.columns)
                  => raised.error = nocolumn
            /\ bad => raised.error = unparseable
            /\ fails => (out = <<>> /\ out_columns = {})
            /\ ~fails =>
                  /\ raised = NoError
                  /\ out_columns = file.columns
                  /\ Len(out) = Len(file.rows)
                  /\ \A i \in 1..Len(out) :
                        /\ DOMAIN out[i] = DOMAIN file.rows[i]
                        /\ \A c \in (DOMAIN out[i]) \ {"timestamp"} :
                              out[i][c] = file.rows[i][c]
                        /\ LET cell == file.rows[i].timestamp
                           IN  out[i].timestamp
                                 = ((cell.day * 24 + cell.hour) * 3600
                                     + cell.minute * 60 + cell.second)
                                   * TicksPerSecond

C17_TotalOnEmptyTable ==
    (df = <<>> /\ df_columns = AllColumns) =>
        /\ op \in {"filter_by_vehicle", "filter_by_location",
                    "filter_by_date_range", "aggregate_by_vehicle",
                    "aggregate_by_time"}
              => (raised = NoError /\ out = <<>>)
        /\ op = "identify_anomalies" =>
              /\ raised = NoError
              /\ out = <<>>
              /\ {"high_temp", "low_efficiency", "high_rpm"} \subseteq out_columns

C17_Witness ==
    /\ df = <<>>
    /\ op = "identify_anomalies"
    /\ raised = NoError
    /\ out = <<>>
    /\ out_columns = AllColumns \cup {"high_temp", "low_efficiency", "high_rpm"}

\* C18: aggregate_by_time floors to the bucket: a record of vehicle v at
\* time t contributes to exactly one output row, the row of v whose
\* timestamp is the bucket start s with s <= t < s + bucket size (a timestamp
\* on a boundary belongs to the bucket starting there), and the speed_mph,
\* fuel_consumption_mpg, engine_temp_f and rpm of an output row are the
\* means over exactly the records contributing to it.
C18_FloorToBucket ==
    (op = "aggregate_by_time" /\ raised = NoError) =>
        LET size == (IF arg[1] = "H" THEN 3600 ELSE 86400) * TicksPerSecond
            Members(k) ==
                {i \in 1..Len(df) :
                    /\ df[i].vehicle_id = out[k].vehicle_id
                    /\ out[k].timestamp <= df[i].timestamp
                    /\ df[i].timestamp < out[k].timestamp + size}
        IN  /\ \A k \in 1..Len(out) : out[k].timestamp % size = 0
            /\ \A i \in 1..Len(df) :
                  Cardinality({k \in 1..Len(out) : i \in Members(k)}) = 1
            /\ \A k \in 1..Len(out) :
                  LET M == Members(k)
                      n == Cardinality(M)
                  IN  n > 0 =>
                        /\ RatEq(out[k].speed_mph, Rat(SumAt(df, "speed_mph", M), n))
                        /\ RatEq(out[k].fuel_consumption_mpg,
                                 Rat(SumAt(df, "fuel_consumption_mpg", M), n))
                        /\ RatEq(out[k].engine_temp_f,
                                 Rat(SumAt(df, "engine_temp_f", M), n))
                        /\ RatEq(out[k].rpm, Rat(SumAt(df, "rpm", M), n))

C18_Witness ==
    /\ op = "aggregate_by_time"
    /\ arg = <<"H">>
    /\ Len(df) >= 3
    /\ \A i \in 1..Len(df) : df[i].vehicle_id = "V1"
    /\ df[1].timestamp = 24 * 3600 * TicksPerSecond - 1
    /\ df[2].timestamp = 24 * 3600 * TicksPerSecond
    /\ df[2].speed_mph = 60
    /\ df[3].timestamp = df[2].timestamp
    /\ df[3].speed_mph = 70
    /\ Len(out) = 2
    /\ out[1].timestamp = 23 * 3600 * TicksPerSecond
    /\ out[2].timestamp = 24 * 3600 * TicksPerSecond
    /\ Len(df) = 3 => out[2].speed_mph = Rat(130, 2)

\* C19: the location_first of vehicle v in aggregate_by_vehicle(T) is the
\* location of the first row of T, in T's row order, whose vehicle_id is v;
\* reordering the rows of T changes no other aggregate column.
Reordered(t, perm) == [i \in 1..Len(t) |-> t[perm[i]]]

C19_LocationOfFirstRow ==
    (op = "aggregate_by_vehicle" /\ raised = NoError) =>
        /\ \A k \in 1..Len(out) :
              LET K == RowsOf(df, out[k].vehicle_id)
              IN  /\ K # {}
                  /\ \A i \in K :
                        (\A j \in K : i <= j)
                            => out[k].location_first = df[i].location
        /\ \A perm \in Permutations(1..Len(df)) :
              LET other == aggregate_by_vehicle(Reordered(df, perm))
              IN  /\ Len(other) = Len(out)
                  /\ \A k \in 1..Len(out) :
                        \A c \in (DOMAIN out[k]) \ {"location_first"} :
                            other[k][c] = out[k][c]

C19_Witness ==
    /\ op = "aggregate_by_vehicle"
    /\ Len(df) >= 2
    /\ df[1].vehicle_id = "V1"
    /\ df[2].vehicle_id = "V1"
    /\ df[1].location = "NYC"
    /\ df[2].location = "LA"
    /\ df[1].timestamp > df[2].timestamp
    /\ out[1].location_first = "NYC"
    /\ aggregate_by_vehicle(<<df[2], df[1]>>)[1].location_first = "LA"

\* C20: apply_filters includes the whole end day: the result is exactly the
\* rows whose vehicle_id and location are selected (or the list is empty) and
\* whose timestamp is on a calendar day from start_date to end_date, whatever
\* its resolution, a timestamp after 23:59:59 on end_date included; the
\* input table is not modified.
C20_WholeEndDayIncluded ==
    (op = "apply_filters" /\ raised = NoError) =>
        IsSelection(df, out,
            {i \in 1..Len(df) :
                /\ arg[1] = <<>> \/ \E k \in 1..Len(arg[1]) :
                                       df[i].vehicle_id = arg[1][k]
                /\ arg[2] = <<>> \/ \E k \in 1..Len(arg[2]) :
                                       df[i].location = arg[2][k]
                /\ arg[3] * 86400 * TicksPerSecond <= df[i].timestamp
                /\ df[i].timestamp < (arg[4] + 1) * 86400 * TicksPerSecond})

\* C21: in a run of main the calls go load, then filters, then consumers;
\* get_summary_stats, aggregate_by_vehicle, aggregate_by_time,
\* calculate_efficiency_score and identify_anomalies are called only on the
\* filtered table and only when it has a row; when the filters leave no row
\* none of them is called and only the warning is shown; when loading fails
\* no filter and no consumer is called.
FilterFunctions ==
    {"filter_by_vehicle", "filter_by_location", "filter_by_date_range"}

ConsumerFunctions ==
    {"get_summary_stats", "aggregate_by_vehicle", "aggregate_by_time",
     "calculate_efficiency_score", "identify_anomalies"}

Stage(fn) ==
    IF fn = "load_data" THEN 0 ELSE IF fn \in FilterFunctions THEN 1 ELSE 2

ConsumerCalls == {i \in 1..Len(calls) : calls[i].fn \in ConsumerFunctions}

C21_LoadFiltersConsumers ==
    /\ \A i, j \in 1..Len(calls) :
          i < j => Stage(calls[i].fn) <= Stage(calls[j].fn)
    /\ \A i \in 1..Len(calls) :
          calls[i].fn \in FilterFunctions =>
              /\ calls[1].fn = "load_data"
              /\ "error" \notin shown
    /\ \A i \in ConsumerCalls :
          /\ \E h \in 1..(i - 1) : calls[h].fn = "filter_by_date_range"
          /\ calls[i].table = filtered_df
          /\ Len(calls[i].table) > 0
    /\ (pc \in {"render_footer", "done"} /\ filtered_df = <<>>) =>
          /\ ConsumerCalls = {}
          /\ shown = {"warning"}
    /\ "warning" \in shown => (filtered_df = <<>> /\ ConsumerCalls = {})
    /\ (op = "load_data" /\ raised # NoError) =>
          /\ pc = "stopped"
          /\ shown = {"error"}
          /\ Len(calls) = 1
    /\ pc = "stopped" => \A i \in 1..Len(calls) : calls[i].fn = "load_data"

C21_Witness ==
    /\ pc = "done"
    /\ Len(df) = 2
    /\ filtered_df = <<>>
    /\ shown = {"warning"}
    /\ Len(calls) = 4
    /\ calls[4].fn = "filter_by_date_range"

====
